---------------------------- MODULE Spec2Model ----------------------------
(***************************************************************************)
(* Model of the brokerage access layer of 15.KIStock-MCP/kistock-mcp.py:   *)
(* KISAuthManager (mode selection, token file, token refresh, hashkey) and *)
(* the six MCP tools built on it.                                          *)
(*                                                                         *)
(* Time is counted in whole hours since an epoch.  Every tool invocation   *)
(* is a coroutine of one asyncio event loop: the code between two awaited  *)
(* HTTP calls runs without interleaving, so each such stretch is one       *)
(* action.  The HTTP servers, the wall clock and the KIS_ACCOUNT_TYPE      *)
(* environment value are the environment, and so is the file system: a     *)
(* save of the token file may fail at the open or at the write (SpecStore, *)
(* SpecConcurrent); in Spec, the six tools run with a file system on which *)
(* saves succeed.                                                          *)
(* KIS_APP_KEY, KIS_APP_SECRET and KIS_CANO are taken to be configured.    *)
(***************************************************************************)
EXTENDS Integers, Sequences, FiniteSets, TLC

(***************************************************************************)
(* Bounds of the model.                                                    *)
(***************************************************************************)
\* Lists of a response document hold at most MaxItems items.
MaxItems == 2
\* The clock advances at most MaxTicks times, by an hour or by a token
\* lifetime each time.
MaxTicks == 2
\* Token files found at start-up carry an expires_at in 0..MaxInitExpiry.
MaxInitExpiry == 2
\* The token endpoints grant at most MaxIssued tokens in one run.
MaxIssued == 2
\* The mode-selector specification records at most MaxResolved resolutions.
MaxResolved == 2

\* The invocation slots of the host.
Procs == {"p1", "p2"}

(***************************************************************************)
(* Constants of KISAuthManager (lines 20-47).                              *)
(***************************************************************************)
DOMAIN_REAL == "https://openapi.koreainvestment.com:9443"
VIRTUAL_DOMAIN == "https://openapivts.koreainvestment.com:29443"
TOKEN_PATH == "/oauth2/tokenP"
HASHKEY_PATH == "/uapi/hashkey"

REAL_TR ==
    [k \in {"price", "balance", "buy", "sell", "order_list", "stock_ask", "stock_info"} |->
        CASE k = "price" -> "FHKST01010100"
          [] k = "balance" -> "TTTC8434R"
          [] k = "buy" -> "TTTC0802U"
          [] k = "sell" -> "TTTC0801U"
          [] k = "order_list" -> "TTTC8001R"
          [] k = "stock_ask" -> "FHKST01010200"
          [] k = "stock_info" -> "FHKST01010400"]

VIRTUAL_TR ==
    [k \in {"price", "balance", "buy", "sell", "order_list", "order_detail",
            "stock_info", "stock_ask"} |->
        CASE k = "price" -> "FHKST01010100"
          [] k = "balance" -> "VTTC8434R"
          [] k = "buy" -> "VTTC0802U"
          [] k = "sell" -> "VTTC0801U"
          [] k = "order_list" -> "VTTC8001R"
          [] k = "order_detail" -> "VTTC80362R"
          [] k = "stock_info" -> "FHKST01010400"
          [] k = "stock_ask" -> "FHKST01010200"]

\* Token lifetime assumed by get_access_token: timedelta(hours=23).
TOKEN_TTL_HOURS == 23

(***************************************************************************)
(* Python values.                                                          *)
(***************************************************************************)
\* None, as a string result (dict.get on a missing key, load_token's token).
None == "<None>"
\* None, as a time result (load_token's expires_at).
NoneTime == -1
\* os.environ without the key KIS_ACCOUNT_TYPE.
Unset == "<unset>"

\* str.upper() on the configuration values used here.
upper(s) ==
    CASE s = "real" -> "REAL"
      [] s = "Real" -> "REAL"
      [] s = "virtual" -> "VIRTUAL"
      [] s = "paper" -> "PAPER"
      [] OTHER -> s

\* str.lower() on the order types used here.
lower(s) ==
    CASE s = "BUY" -> "buy"
      [] s = "Buy" -> "buy"
      [] s = "SELL" -> "sell"
      [] s = "HOLD" -> "hold"
      [] OTHER -> s

(***************************************************************************)
(* Mode selector: is_real / get_domain / get_tr_id read os.environ at      *)
(* every call; e is the value of KIS_ACCOUNT_TYPE at that moment.          *)
(***************************************************************************)
is_real(e) == upper(IF e = Unset THEN "REAL" ELSE e) = "REAL"

get_domain(e) == IF is_real(e) THEN DOMAIN_REAL ELSE VIRTUAL_DOMAIN

\* dict.get(key): the table's value, or None for a key the table lacks.
dict_get(table, key) == IF key \in DOMAIN table THEN table[key] ELSE None

\* A resolver that would look every name up in the LIVE table, whatever the
\* mode: C8_ModesResolveApart tells it from get_tr_id.
get_tr_id_live_only(e, key) == dict_get(REAL_TR, key)

get_tr_id(e, key) ==
    IF is_real(e) THEN dict_get(REAL_TR, key) ELSE dict_get(VIRTUAL_TR, key)

(***************************************************************************)
(* Timestamps: datetime.isoformat() and datetime.fromisoformat().          *)
(***************************************************************************)
Horizon == TOKEN_TTL_HOURS * (MaxTicks + 1) + MaxInitExpiry + 1

\* The clock advances that lead to the time t.
Ticks(t) == (t \div TOKEN_TTL_HOURS) + (t % TOKEN_TTL_HOURS)

pad2(n) == IF n < 10 THEN "0" \o ToString(n) ELSE ToString(n)

isoformat(t) ==
    "1970-01-" \o pad2(1 + (t \div 24)) \o "T" \o pad2(t % 24) \o ":00:00"

\* The timestamps of the model's horizon, as isoformat writes them.
IsoStrings == [t \in 0..Horizon |-> isoformat(t)]

\* The time each of them stands for.
IsoTimes ==
    [s \in {IsoStrings[t] : t \in 0..Horizon} |->
        CHOOSE t \in 0..Horizon : IsoStrings[t] = s]

\* The parse of s: ok and the time, or ok = FALSE (ValueError).
fromisoformat(s) ==
    IF s \in DOMAIN IsoTimes
    THEN [ok |-> TRUE, time |-> IsoTimes[s]]
    ELSE [ok |-> FALSE, time |-> NoneTime]

(***************************************************************************)
(* The token file.  kind: "absent" (no file), "text" (content that is not  *)
(* JSON, the empty file included) or "object" (a JSON object, obj mapping  *)
(* its keys to string values).                                             *)
(***************************************************************************)
NoObj == [k \in {} |-> ""]
FileAbsent == [kind |-> "absent", obj |-> NoObj]
FileText == [kind |-> "text", obj |-> NoObj]
FileObject(o) == [kind |-> "object", obj |-> o]

\* The record json.dump writes in save_token: exactly these two keys.
token_record(token, expires_at) ==
    [k \in {"token", "expires_at"} |->
        IF k = "token" THEN token ELSE isoformat(expires_at)]

\* (None, None).
NoToken == [token |-> None, expires_at |-> NoneTime]

\* A loader that would accept a record without expires_at as a token good
\* for another hour: C6_MalformedIsNoCache tells it from load_token.
load_token_lenient(f, t) ==
    IF f.kind # "object" THEN NoToken
    ELSE IF "token" \notin DOMAIN f.obj THEN NoToken
    ELSE IF "expires_at" \notin DOMAIN f.obj
         THEN [token |-> f.obj["token"], expires_at |-> t + 1]
    ELSE LET parsed == fromisoformat(f.obj["expires_at"]) IN
         IF ~parsed.ok THEN NoToken
         ELSE IF ~(t < parsed.time) THEN NoToken
         ELSE [token |-> f.obj["token"], expires_at |-> parsed.time]

\* load_token: (token, expires_at) of a readable, well-formed, unexpired
\* record; (None, None) otherwise.  Every exception is caught (line 70).
load_token(f, t) ==
    LET none == NoToken IN
    IF f.kind # "object" THEN none
    ELSE IF "expires_at" \notin DOMAIN f.obj THEN none
    ELSE LET parsed == fromisoformat(f.obj["expires_at"]) IN
         IF ~parsed.ok THEN none
         ELSE IF ~(t < parsed.time) THEN none
         ELSE IF "token" \notin DOMAIN f.obj THEN none
         ELSE [token |-> f.obj["token"], expires_at |-> parsed.time]

\* save_token (lines 76-80): the new content of the file f, io telling how
\* the save ends.  Every exception of the try block is caught and printed,
\* so save_token returns normally in all three cases:
\*  - open(TOKEN_FILE, 'w') truncates the file and json.dump writes the
\*    record;
\*  - open raises (no such directory, no permission, a directory in its
\*    place): the file is as before;
\*  - open succeeds and the write raises (a full disk, a file size limit):
\*    the file is empty or holds a proper prefix of the record, which is
\*    not JSON.
save_token(f, token, expires_at, io) ==
    CASE io = "written" -> FileObject(token_record(token, expires_at))
      [] io = "open_fails" -> f
      [] io = "write_fails" -> FileText

\* A validity test that would give a token up an hour before its expires_at:
\* C3_ValidTokenIsReused tells it from cache_hit.
cache_hit_early(loaded, t) ==
    /\ loaded.token # None
    /\ loaded.token # ""
    /\ loaded.expires_at # NoneTime
    /\ t + 1 < loaded.expires_at

\* The test of line 85: `token and expires_at and datetime.now() < expires_at`.
cache_hit(loaded, t) ==
    /\ loaded.token # None
    /\ loaded.token # ""
    /\ loaded.expires_at # NoneTime
    /\ t < loaded.expires_at

\* A cache that would return the token of the file without looking at the
\* clock: C2_ExpiredTokenIsRefreshed tells it from cached_token.
cached_token_any_age(f, t1, t2) ==
    IF /\ f.kind = "object"
       /\ {"token", "expires_at"} \subseteq DOMAIN f.obj
       /\ fromisoformat(f.obj["expires_at"]).ok
    THEN [token |-> f.obj["token"],
          expires_at |-> fromisoformat(f.obj["expires_at"]).time]
    ELSE NoToken

\* Lines 84-86 of get_access_token: the cached token it returns, or
\* (None, None) when it goes on to the token endpoint.  t1 is the clock
\* read by load_token, t2 the later read of line 85.
cached_token(f, t1, t2) ==
    LET loaded == load_token(f, t1) IN
    IF cache_hit(loaded, t2) THEN loaded ELSE NoToken

(***************************************************************************)
(* JSON documents, as response.json() yields them: null, a string, an      *)
(* object (keys to values) or a list of values.                            *)
(***************************************************************************)
JNull == [kind |-> "null", obj |-> NoObj, str |-> "", items |-> <<>>]
JStr(s) == [kind |-> "str", obj |-> NoObj, str |-> s, items |-> <<>>]
JObj(o) == [kind |-> "obj", obj |-> o, str |-> "", items |-> <<>>]
JList(l) == [kind |-> "list", obj |-> NoObj, str |-> "", items |-> l]

\* A body that is not JSON: response.json() raises on it.
NotJson == [kind |-> "invalid", obj |-> NoObj, str |-> "", items |-> <<>>]

\* {key: value} and {key1: value1, key2: value2}.
Obj1(key, value) == JObj([k \in {key} |-> value])
Obj2(key1, value1, key2, value2) ==
    JObj([k \in {key1, key2} |-> IF k = key1 THEN value1 ELSE value2])

\* Python's truth value of a JSON value: `not v`.
falsy(v) ==
    \/ v.kind = "null"
    \/ v.kind = "str" /\ v.str = ""
    \/ v.kind = "obj" /\ DOMAIN v.obj = {}
    \/ v.kind = "list" /\ v.items = <<>>

\* dict.get(key, default) and dict.get(key) on the dict o.
get_or(o, key, default) == IF key \in DOMAIN o THEN o[key] ELSE default
get(o, key) == get_or(o, key, JNull)

\* A selection that would also keep the keys of the item it does not look
\* for: C16_PriceProjectionKeys tells it from select.
select_and_keep(item, keys) ==
    JObj([k \in keys \cup DOMAIN item.obj |-> get(item.obj, k)])

\* {key: item.get(key) for key in keys}.
select(item, keys) == JObj([k \in keys |-> get(item.obj, k)])

\* {key: item[key] for key in keys if key in item}.
select_present(item, keys) ==
    JObj([k \in keys \cap DOMAIN item.obj |-> item.obj[k]])

\* What a tool makes of a response: nothing yet, an exception, a value.
NoOutcome == [kind |-> "none", value |-> JNull]
Raises(what) == [kind |-> "raised", value |-> JStr(what)]
Returns(v) == [kind |-> "returned", value |-> v]

\* {"message": text}.
Message(text) == JObj([k \in {"message"} |-> JStr(text)])

(***************************************************************************)
(* What each tool makes of the JSON document of a response whose status it *)
(* has accepted (the lines after raise_for_status / the status_code test). *)
(* d is response.json(), a JSON object.                                    *)
(***************************************************************************)
\* keys of get_stock_price (lines 151-155).
price_keys ==
    {"stck_shrn_iscd", "rprs_mrkt_kor_name", "bstp_kor_isnm", "stck_prpr",
     "prdy_vrss", "prdy_ctrt", "stck_oprc", "stck_hgpr", "stck_lwpr", "acml_vol",
     "acml_tr_pbmn", "per", "pbr", "eps", "bps", "hts_frgn_ehrt", "frgn_ntby_qty",
     "pgtr_ntby_qty"}

\* output1_keys and output2_keys of get_account_balance (lines 201-208).
balance_output1_keys ==
    {"pdno", "prdt_name", "hldg_qty", "ord_psbl_qty", "pchs_avg_pric", "prpr",
     "evlu_amt", "evlu_pfls_amt", "evlu_pfls_rt"}
balance_output2_keys ==
    {"dnca_tot_amt", "scts_evlu_amt", "tot_evlu_amt", "nass_amt",
     "evlu_pfls_smtl_amt", "asst_icdc_amt", "asst_icdc_erng_rt"}

\* important_columns of get_order_list (lines 324-329).
important_columns ==
    {"ord_dt", "odno", "ord_dvsn_name", "sll_buy_dvsn_cd_name", "pdno", "prdt_name",
     "ord_qty", "ord_unpr", "tot_ccld_qty", "avg_prvs", "tot_ccld_amt", "cncl_yn",
     "rmn_qty", "rjct_qty"}

\* output1_keys and output2_keys of get_stock_ask_price (lines 378-383).
ask_output1_keys ==
    {"askp1", "askp_rsqn1", "bidp1", "bidp_rsqn1", "total_askp_rsqn",
     "total_bidp_rsqn"}
ask_output2_keys ==
    {"stck_prpr", "stck_oprc", "stck_hgpr", "stck_lwpr", "stck_sdpr",
     "stck_shrn_iscd"}

\* core_keys of get_daily_price (line 432).
core_keys == {"stck_bsop_date", "stck_oprc", "stck_hgpr", "stck_lwpr", "stck_clpr"}

\* The exception of `for item in v` with item.get(...) in its body, "" when
\* there is none: None is not iterable (TypeError); what the loop visits (an
\* element of a list, the characters of a string, the keys of a dict) is not
\* a dict and has no get (AttributeError).
loop_error(v) ==
    IF v.kind = "null" THEN "TypeError"
    ELSE IF \/ v.kind \in {"str", "obj"} /\ ~falsy(v)
            \/ v.kind = "list" /\ \E i \in DOMAIN v.items : v.items[i].kind # "obj"
         THEN "AttributeError"
    ELSE ""

\* [{key: item.get(key) for key in keys} for item in v].
select_each(v, keys) ==
    JList([i \in DOMAIN v.items |-> select(v.items[i], keys)])

\* [{key: item[key] for key in keys if key in item} for item in v].
select_present_each(v, keys) ==
    JList([i \in DOMAIN v.items |-> select_present(v.items[i], keys)])

\* get_stock_price, lines 148-156.
stock_price_result(d) ==
    LET output == get(d.obj, "output") IN
    IF falsy(output) THEN Returns(Message("No data found for the given symbol."))
    ELSE IF output.kind # "obj" THEN Raises("AttributeError")
    ELSE Returns(select(output, price_keys))

\* get_account_balance, lines 196-225: the no-data test, the loop over
\* output1, then the loop over output2.
account_balance_result(d) ==
    IF falsy(d) \/ "output1" \notin DOMAIN d.obj \/ falsy(d.obj["output1"])
    THEN Returns(Message("No balance data found."))
    ELSE LET output1 == get_or(d.obj, "output1", JList(<<>>))
             output2 == get_or(d.obj, "output2", JList(<<>>))
         IN IF loop_error(output1) # "" THEN Raises(loop_error(output1))
            ELSE IF loop_error(output2) # "" THEN Raises(loop_error(output2))
            ELSE Returns(JObj([k \in {"output1", "output2"} |->
                     IF k = "output1" THEN select_each(output1, balance_output1_keys)
                     ELSE select_each(output2, balance_output2_keys)]))

\* place_order, lines 271-274.
order_result(d) ==
    IF falsy(d) \/ "output" \notin DOMAIN d.obj
    THEN Returns(Message("Order failed or no response."))
    ELSE Returns(d)

\* get_order_list, lines 320-342.  `key in item` raises TypeError on an item
\* that is None.  An output1 that is true but not a list of objects and
\* nulls is not among the documents considered.
order_list_result(d) ==
    IF falsy(d) \/ "output1" \notin DOMAIN d.obj \/ falsy(d.obj["output1"])
    THEN Returns(Message("No order history found for the given period."))
    ELSE IF \E i \in DOMAIN d.obj["output1"].items :
                d.obj["output1"].items[i].kind = "null"
         THEN Raises("TypeError")
    ELSE Returns(JObj([k \in {"output1", "output2", "rt_cd", "msg_cd", "msg1"} |->
             CASE k = "output1" -> select_present_each(d.obj["output1"], important_columns)
               [] k = "output2" -> get_or(d.obj, "output2", JObj(NoObj))
               [] OTHER -> get_or(d.obj, k, JStr(""))]))

\* get_stock_ask_price, lines 376-389.
ask_price_result(d) ==
    LET output1 == get_or(d.obj, "output1", JObj(NoObj))
        output2 == get_or(d.obj, "output2", JObj(NoObj))
    IN IF output1.kind # "obj" \/ output2.kind # "obj" THEN Raises("AttributeError")
       ELSE Returns(JObj([k \in {"output1", "output2"} |->
                IF k = "output1" THEN select(output1, ask_output1_keys)
                ELSE select(output2, ask_output2_keys)]))

\* get_daily_price, lines 430-437.
daily_price_result(d) ==
    LET output == get_or(d.obj, "output", JList(<<>>)) IN
    IF loop_error(output) # "" THEN Raises(loop_error(output))
    ELSE Returns(select_each(output, core_keys))

(***************************************************************************)
(* HTTP.  A request as the server receives it; expired is bookkeeping:     *)
(* whether, at the moment of dispatch, the clock had reached the           *)
(* expires_at the client holds for the bearer token.                       *)
(***************************************************************************)
NoBody ==
    [CANO |-> "", ACNT_PRDT_CD |-> "", PDNO |-> "", ORD_DVSN |-> "",
     ORD_QTY |-> "", ORD_UNPR |-> ""]

Request(kind, token, domain, path, tr_id, body, hashkey, expired) ==
    [kind |-> kind, token |-> token, domain |-> domain, path |-> path,
     tr_id |-> tr_id, body |-> body, hashkey |-> hashkey, expired |-> expired]

\* HTTP status codes the servers answer with.
Statuses == {200, 201, 302, 500}

\* What comes back from an awaited HTTP call: a transport error, or a
\* response with a status and a body (a JSON document or NotJson).
NoResponse == [net |-> "none", status |-> 0, json |-> JNull]
TransportError == [net |-> "error", status |-> 0, json |-> JNull]

Responses(bodies) ==
    {TransportError} \cup
    {[net |-> "ok", status |-> s, json |-> b] : s \in Statuses, b \in bodies}

\* The bodies of the token endpoint: the grant of `token`, a document
\* without access_token, a body that is not JSON.
TokenBodies(token) == {Obj1("access_token", JStr(token)), JObj(NoObj), NotJson}

\* The bodies of the hashkey endpoint: the hash, a document without HASH, a
\* body that is not JSON.
HashkeyBodies(hash) == {Obj1("HASH", JStr(hash)), JObj(NoObj), NotJson}

\* httpx Response.raise_for_status(): raises unless the status is 2xx.
raise_for_status(status) == ~(200 <= status /\ status <= 299)

\* A token call that would go on with a 2xx response that lacks
\* access_token: C5_FailedGrantSurfaces tells it from token_call_fails.
token_call_fails_unless_2xx(r) ==
    \/ r.net = "error"
    \/ raise_for_status(r.status)

\* The awaited token call of get_access_token (lines 87-98) fails: the post
\* raises, raise_for_status raises, response.json() raises, or
\* token_data["access_token"] raises.
token_call_fails(r) ==
    \/ r.net = "error"
    \/ raise_for_status(r.status)
    \/ r.json = NotJson
    \/ r.json.kind # "obj"
    \/ "access_token" \notin DOMAIN r.json.obj

\* A hashkey call that would go on with a 2xx response that lacks HASH:
\* C21_OrderFollowsSigning tells it from hashkey_call_fails.
hashkey_call_fails_unless_2xx(r) ==
    \/ r.net = "error"
    \/ raise_for_status(r.status)

\* The awaited call of get_hashkey (lines 105-116) fails likewise.
hashkey_call_fails(r) ==
    \/ r.net = "error"
    \/ raise_for_status(r.status)
    \/ r.json = NotJson
    \/ r.json.kind # "obj"
    \/ "HASH" \notin DOMAIN r.json.obj

\* expires_at of a token granted at time t (line 99).
grant_expiry(t) == t + TOKEN_TTL_HOURS

\* The n-th token granted by the deployment at `domain`.
TokenName(domain, n) ==
    (IF domain = DOMAIN_REAL THEN "L" ELSE "P") \o ToString(n)

\* The hash the hashkey endpoint computes for a request body.
HashOf(body) ==
    "hash(" \o body.CANO \o "|" \o body.ACNT_PRDT_CD \o "|" \o body.PDNO \o "|"
        \o body.ORD_DVSN \o "|" \o body.ORD_QTY \o "|" \o body.ORD_UNPR \o ")"

(***************************************************************************)
(* The tools.  A call names the tool, the logical operation whose          *)
(* transaction code it asks for, its path and, for place_order, the order. *)
(***************************************************************************)
Call(tool, op, endpoint, order_type, quantity, price) ==
    [tool |-> tool, op |-> op, endpoint |-> endpoint, order_type |-> order_type,
     quantity |-> quantity, price |-> price]

NoCall == Call("", "", "", "", 0, 0)

OrderTypes == {"buy", "SELL", "hold"}
Quantities == {10, 0}
Prices == {0, 70000, -1}
Symbol == "005930"

\* The orders place_order is called with: arguments that break at most one
\* of the constraints on order_type, quantity and price.
Orders ==
    {o \in OrderTypes \X Quantities \X Prices :
        Cardinality({i \in 1..3 :
            \/ i = 1 /\ lower(o[1]) \notin {"buy", "sell"}
            \/ i = 2 /\ o[2] <= 0
            \/ i = 3 /\ o[3] < 0}) <= 1}

\* An order body that would be marked as a limit order whatever the price:
\* C11_OrderBodyAndCode tells it from request_data.
request_data_always_limit(c) ==
    [CANO |-> "KIS_CANO", ACNT_PRDT_CD |-> "01", PDNO |-> Symbol,
     ORD_DVSN |-> "00",
     ORD_QTY |-> ToString(c.quantity), ORD_UNPR |-> ToString(c.price)]

\* request_data of place_order (lines 249-256).
request_data(c) ==
    [CANO |-> "KIS_CANO", ACNT_PRDT_CD |-> "01", PDNO |-> Symbol,
     ORD_DVSN |-> IF c.price = 0 THEN "01" ELSE "00",
     ORD_QTY |-> ToString(c.quantity), ORD_UNPR |-> ToString(c.price)]

\* The POST of get_access_token (lines 87-95).
token_request(e) ==
    Request("token", "", get_domain(e), TOKEN_PATH, "", NoBody, "", FALSE)

\* A signer that would send the hashkey endpoint an empty body:
\* C10_OrderCarriesItsHashkey tells it from get_hashkey.
get_hashkey_of_nothing(e, token, exp, body, t) ==
    Request("hashkey", token, get_domain(e), HASHKEY_PATH, "", NoBody, "", ~(t < exp))

\* The POST of get_hashkey (lines 105-114).
get_hashkey(e, token, exp, body, t) ==
    Request("hashkey", token, get_domain(e), HASHKEY_PATH, "", body, "", ~(t < exp))

\* The trading/quote call of a tool: GET with the tool's tr_id, or for
\* place_order the POST of request_data with the hashkey (lines 258-269).
api_request(c, e, token, exp, hk, t) ==
    IF c.tool = "place_order"
    THEN Request("api", token, get_domain(e), c.endpoint,
                 get_tr_id(e, lower(c.order_type)), request_data(c), hk, ~(t < exp))
    ELSE Request("api", token, get_domain(e), c.endpoint,
                 get_tr_id(e, c.op), NoBody, "", ~(t < exp))

\* What a tool dispatches once get_access_token has returned.
first_request(c, e, token, exp, t) ==
    IF c.tool = "place_order"
    THEN get_hashkey(e, token, exp, request_data(c), t)
    ELSE api_request(c, e, token, exp, "", t)

first_wait(c) == IF c.tool = "place_order" THEN "hash_wait" ELSE "api_wait"

\* A check that would turn away only a missing order_type:
\* C12_InvalidSideFailsFast tells it from order_type_invalid.
order_type_invalid_if_empty(c) ==
    c.tool = "place_order" /\ c.order_type = ""

\* place_order's check of order_type (lines 244-246).
order_type_invalid(c) ==
    c.tool = "place_order" /\ lower(c.order_type) \notin {"buy", "sell"}

\* The bodies the trading/quote endpoint of a tool answers with: a body
\* that is not JSON, a document without the fields the tool reads, and
\* documents in which a field the tool reads holds data, is empty, or is
\* null.
Answers(tool) ==
    LET row(key) == Obj1(key, JStr("70000")) IN
    {NotJson, JObj(NoObj)} \cup
    CASE tool = "get_stock_price" ->
           {Obj1("output", row("stck_prpr")), Obj1("output", JObj(NoObj))}
      [] tool = "get_account_balance" ->
           {Obj2("output1", JList(<<row("pdno")>>), "output2", JList(<<row("tot_evlu_amt")>>)),
            Obj1("output1", JList(<<>>)),
            Obj2("output1", JList(<<row("pdno")>>), "output2", JNull)}
      [] tool = "place_order" ->
           {Obj1("output", row("ODNO")), Obj1("output", JObj(NoObj))}
      [] tool = "get_order_list" ->
           {Obj1("output1", JList(<<row("odno")>>)), Obj1("output1", JList(<<>>))}
      [] tool = "get_stock_ask_price" ->
           {Obj2("output1", row("askp1"), "output2", row("stck_prpr")),
            Obj2("output1", row("askp1"), "output2", JNull),
            Obj1("output1", JNull)}
      [] tool = "get_daily_price" ->
           {Obj1("output", JList(<<row("stck_clpr")>>)),
            Obj1("output", JList(<<>>)),
            Obj1("output", JNull)}

\* The outcome of a tool once its trading/quote call has been answered.
NoResult == [kind |-> "none", value |-> ""]
Raised(what) == [kind |-> "raised", value |-> what]
Returned(what) == [kind |-> "returned", value |-> what]

\* The lines of a tool that follow response.json().
tool_result(tool, d) ==
    CASE tool = "get_stock_price" -> stock_price_result(d)
      [] tool = "get_account_balance" -> account_balance_result(d)
      [] tool = "place_order" -> order_result(d)
      [] tool = "get_order_list" -> order_list_result(d)
      [] tool = "get_stock_ask_price" -> ask_price_result(d)
      [] tool = "get_daily_price" -> daily_price_result(d)

\* What the host sees of a tool's outcome: the exception raised, the
\* {"message": ...} dict, or data.
result_of(o) ==
    IF o.kind = "raised" THEN Raised(o.value.str)
    ELSE IF o.value.kind = "obj" /\ DOMAIN o.value.obj = {"message"}
         THEN Returned("message")
    ELSE Returned("data")

\* A response handling that would let ask price and daily price accept every
\* 2xx status: C14_QuoteToolsRaiseUnless200 tells it from api_result.
api_result_any_2xx(c, r) ==
    IF r.net = "error" THEN Raised("transport")
    ELSE IF c.tool \in {"get_stock_ask_price", "get_daily_price"}
            /\ raise_for_status(r.status)
         THEN Raised("Exception")
    ELSE IF c.tool \notin {"get_stock_ask_price", "get_daily_price"}
            /\ raise_for_status(r.status)
         THEN Raised("HTTPStatusError")
    ELSE IF r.json = NotJson THEN Raised("JSONDecodeError")
    ELSE result_of(tool_result(c.tool, r.json))

\* A tool from the answer to its trading/quote call to its end.  Ask price
\* and daily price test status_code != 200 (lines 374, 428), the other four
\* call raise_for_status (lines 147, 195, 270, 319); then response.json(),
\* which raises on a body that is not JSON; then the lines that follow it.
api_result(c, r) ==
    IF r.net = "error" THEN Raised("transport")
    ELSE IF c.tool \in {"get_stock_ask_price", "get_daily_price"}
            /\ r.status # 200
         THEN Raised("Exception")
    ELSE IF c.tool \notin {"get_stock_ask_price", "get_daily_price"}
            /\ raise_for_status(r.status)
         THEN Raised("HTTPStatusError")
    ELSE IF r.json = NotJson THEN Raised("JSONDecodeError")
    ELSE result_of(tool_result(c.tool, r.json))

(***************************************************************************)
(* State.                                                                  *)
(***************************************************************************)
VARIABLES
    now,        \* the wall clock
    env,        \* os.environ's KIS_ACCOUNT_TYPE (Unset when absent)
    file,       \* TOKEN_FILE
    issued,     \* tokens granted so far by the token endpoints
    pc,         \* per invocation: where the coroutine is suspended
    call,       \* per invocation: the tool and its arguments
    tok,        \* per invocation: what get_access_token returned
    tokExp,     \* per invocation: the expires_at held for tok
    grant,      \* per invocation: access_token of the token response
    hashkey,    \* per invocation: HASH of the hashkey response
    reqs,       \* per invocation: the requests dispatched, in order
    resp,       \* per invocation: the last HTTP response received
    res,        \* per invocation: the tool's outcome
    loaded,     \* per invocation: load_token has opened TOKEN_FILE
    resolved,   \* mode-selector specification: the resolutions made
    handler,    \* projection specification: the tool that got a response
    data,       \* projection specification: response.json() of that response
    outcome     \* projection specification: what the tool makes of it

vars == <<now, env, file, issued, pc, call, tok, tokExp, grant, hashkey,
          reqs, resp, res, loaded, resolved, handler, data, outcome>>

EnvValues == {Unset, "real", "VIRTUAL"}

\* Token files a run may find at start-up: none, garbage, records lacking a
\* key, a non-ISO expires_at, an empty token, a record with a foreign key,
\* and tokens of earlier runs of either deployment.
OldTokens == {"L0"}

InitObjects ==
    {NoObj,
     [k \in {"token"} |-> "L0"],
     [k \in {"expires_at"} |-> isoformat(MaxInitExpiry)],
     [k \in {"token", "expires_at"} |-> IF k = "token" THEN "L0" ELSE "tomorrow"],
     [k \in {"token", "expires_at"} |->
         IF k = "token" THEN "" ELSE isoformat(MaxInitExpiry)],
     [k \in {"token", "expires_at", "user"} |->
         CASE k = "token" -> "L0"
           [] k = "expires_at" -> isoformat(MaxInitExpiry)
           [] k = "user" -> "alice"]}
    \cup {token_record(t, e) : t \in OldTokens, e \in 0..MaxInitExpiry}

InitFiles == {FileAbsent, FileText} \cup {FileObject(o) : o \in InitObjects}

PerProc(v) == [p \in Procs |-> v]

Init ==
    /\ now = 0
    /\ env \in EnvValues
    /\ file \in InitFiles
    /\ issued = 0
    /\ pc = PerProc("idle")
    /\ call = PerProc(NoCall)
    /\ tok = PerProc(None)
    /\ tokExp = PerProc(NoneTime)
    /\ grant = PerProc(None)
    /\ hashkey = PerProc("")
    /\ reqs = PerProc(<<>>)
    /\ resp = PerProc(NoResponse)
    /\ res = PerProc(NoResult)
    /\ loaded = PerProc(FALSE)
    /\ resolved = {}
    /\ handler = ""
    /\ data = JNull
    /\ outcome = NoOutcome

(***************************************************************************)
(* Actions.                                                                *)
(***************************************************************************)
\* The tool ends with `result` (a return value or an exception): its
\* coroutine and the locals of it are gone, the host has the outcome.
Finish(p, result) ==
    /\ pc' = [pc EXCEPT ![p] = "done"]
    /\ res' = [res EXCEPT ![p] = result]
    /\ reqs' = [reqs EXCEPT ![p] = <<>>]
    /\ tok' = [tok EXCEPT ![p] = None]
    /\ tokExp' = [tokExp EXCEPT ![p] = NoneTime]
    /\ grant' = [grant EXCEPT ![p] = None]
    /\ hashkey' = [hashkey EXCEPT ![p] = ""]

\* Two successive reads of datetime.now() (load_token line 68, then
\* get_access_token line 85) may differ.
ClockSkews == {0, 1}

\* A tool is invoked and runs up to its first awaited HTTP call:
\* place_order's order_type check, then get_access_token's load_token and
\* validity test, then either the token request (miss) or, on a hit, the
\* tool's first request with the cached token.
Invoke(p, c) ==
    /\ pc[p] \in {"idle", "done"}
    /\ call' = [call EXCEPT ![p] = c]
    /\ resp' = [resp EXCEPT ![p] = NoResponse]
    /\ UNCHANGED <<env, file, issued, resolved, handler, data, outcome>>
    /\ IF order_type_invalid(c)
       THEN /\ Finish(p, Returned("error"))
            /\ loaded' = [loaded EXCEPT ![p] = FALSE]
            /\ UNCHANGED now
       ELSE \E d \in ClockSkews :
            /\ Ticks(now + d) <= MaxTicks
            /\ now' = now + d
            /\ loaded' = [loaded EXCEPT ![p] = TRUE]
            /\ res' = [res EXCEPT ![p] = NoResult]
            /\ grant' = [grant EXCEPT ![p] = None]
            /\ hashkey' = [hashkey EXCEPT ![p] = ""]
            /\ LET cached == cached_token(file, now, now + d) IN
               /\ tok' = [tok EXCEPT ![p] = cached.token]
               /\ tokExp' = [tokExp EXCEPT ![p] = cached.expires_at]
               /\ IF cached.token # None
                  THEN /\ reqs' = [reqs EXCEPT ![p] =
                             <<first_request(c, env, cached.token, cached.expires_at,
                                             now + d)>>]
                       /\ pc' = [pc EXCEPT ![p] = first_wait(c)]
                  ELSE /\ reqs' = [reqs EXCEPT ![p] = <<token_request(env)>>]
                       /\ pc' = [pc EXCEPT ![p] = "token_wait"]

get_stock_price(p) ==
    Invoke(p, Call("get_stock_price", "price",
                   "/uapi/domestic-stock/v1/quotations/inquire-price", "", 0, 0))

get_account_balance(p) ==
    Invoke(p, Call("get_account_balance", "balance",
                   "/uapi/domestic-stock/v1/trading/inquire-balance", "", 0, 0))

place_order(p) ==
    \E o \in Orders :
        Invoke(p, Call("place_order", "", "/uapi/domestic-stock/v1/trading/order-cash",
                       o[1], o[2], o[3]))

get_order_list(p) ==
    Invoke(p, Call("get_order_list", "order_list",
                   "/uapi/domestic-stock/v1/trading/inquire-daily-ccld", "", 0, 0))

get_stock_ask_price(p) ==
    Invoke(p, Call("get_stock_ask_price", "stock_ask",
                   "/uapi/domestic-stock/v1/quotations/inquire-asking-price-exp-ccn",
                   "", 0, 0))

get_daily_price(p) ==
    Invoke(p, Call("get_daily_price", "stock_info",
                   "/uapi/domestic-stock/v1/quotations/inquire-daily-price", "", 0, 0))

\* The token call fails: the exception leaves get_access_token and the tool.
TokenFailed(p) ==
    /\ pc[p] = "token_wait"
    /\ \E r \in Responses(TokenBodies(TokenName(reqs[p][1].domain, issued + 1))) :
        /\ token_call_fails(r)
        /\ resp' = [resp EXCEPT ![p] = r]
    /\ Finish(p, Raised("token"))
    /\ UNCHANGED <<now, env, file, issued, call, resolved, loaded, handler, data, outcome>>

\* The token call succeeds (lines 96-101): the token is the access_token
\* of the response, expires_at = now + 23 hours, save_token ends in one of
\* its three ways, get_access_token returns the token; the tool then
\* dispatches its first request.
Granted(p, io) ==
    /\ pc[p] = "token_wait"
    /\ issued < MaxIssued
    /\ \E r \in Responses(TokenBodies(TokenName(reqs[p][1].domain, issued + 1))) :
        /\ ~token_call_fails(r)
        /\ resp' = [resp EXCEPT ![p] = r]
        /\ LET granted == get(r.json.obj, "access_token")
               token == IF granted.kind = "null" THEN None ELSE granted.str
               expires_at == grant_expiry(now)
           IN /\ file' = save_token(file, token, expires_at, io)
              /\ grant' = [grant EXCEPT ![p] = token]
              /\ tok' = [tok EXCEPT ![p] = token]
              /\ tokExp' = [tokExp EXCEPT ![p] = expires_at]
              /\ reqs' = [reqs EXCEPT ![p] =
                    Append(@, first_request(call[p], env, token, expires_at, now))]
    /\ issued' = issued + 1
    /\ pc' = [pc EXCEPT ![p] = first_wait(call[p])]
    /\ UNCHANGED <<now, env, call, hashkey, res, resolved, loaded, handler, data, outcome>>

\* The grant is saved to the token file.
TokenGranted(p) == Granted(p, "written")

\* The grant is not saved: open(TOKEN_FILE, 'w') raised, save_token printed
\* the error, and get_access_token returns the token all the same.
TokenGrantedUnsaved(p) == Granted(p, "open_fails")

\* The grant is cut short: open truncated the file, the write raised,
\* save_token printed the error, and get_access_token returns the token all
\* the same.
TokenGrantedTruncated(p) == Granted(p, "write_fails")

\* The hashkey call fails: the exception leaves get_hashkey and place_order.
HashkeyFailed(p) ==
    /\ pc[p] = "hash_wait"
    /\ \E r \in Responses(HashkeyBodies(HashOf(reqs[p][Len(reqs[p])].body))) :
        /\ hashkey_call_fails(r)
        /\ resp' = [resp EXCEPT ![p] = r]
    /\ Finish(p, Raised("hashkey"))
    /\ UNCHANGED <<now, env, file, issued, call, resolved, loaded, handler, data, outcome>>

\* The hashkey call succeeds: place_order posts the order (lines 258-269).
HashkeyReturned(p) ==
    /\ pc[p] = "hash_wait"
    /\ \E r \in Responses(HashkeyBodies(HashOf(reqs[p][Len(reqs[p])].body))) :
        /\ ~hashkey_call_fails(r)
        /\ resp' = [resp EXCEPT ![p] = r]
        /\ LET hk == get(r.json.obj, "HASH").str IN
            /\ hashkey' = [hashkey EXCEPT ![p] = hk]
            /\ reqs' = [reqs EXCEPT ![p] =
                  Append(@, api_request(call[p], env, tok[p], tokExp[p], hk, now))]
    /\ pc' = [pc EXCEPT ![p] = "api_wait"]
    /\ UNCHANGED <<now, env, file, issued, call, tok, tokExp, grant, res, resolved, loaded, handler, data, outcome>>

\* The trading/quote call is answered and the tool ends.
ApiResponse(p) ==
    /\ pc[p] = "api_wait"
    /\ \E r \in Responses(Answers(call[p].tool)) :
        /\ resp' = [resp EXCEPT ![p] = r]
        /\ Finish(p, api_result(call[p], r))
    /\ UNCHANGED <<now, env, file, issued, call, resolved, loaded, handler, data, outcome>>

\* Time passes: an hour, or a token lifetime.
ClockSteps == {1, TOKEN_TTL_HOURS}

Tick ==
    /\ \E step \in ClockSteps :
        /\ Ticks(now + step) <= MaxTicks
        /\ now' = now + step
    /\ UNCHANGED <<env, file, issued, pc, call, tok, tokExp, grant, hashkey,
                   reqs, resp, res, resolved, loaded, handler, data, outcome>>

\* KIS_ACCOUNT_TYPE is changed in os.environ while the server runs.
SetEnv ==
    /\ \E e \in EnvValues \ {env} : env' = e
    /\ UNCHANGED <<now, file, issued, pc, call, tok, tokExp, grant, hashkey,
                   reqs, resp, res, resolved, loaded, handler, data, outcome>>

\* One step of invocation slot p.
Step(p) ==
    \/ get_stock_price(p)
    \/ get_account_balance(p)
    \/ place_order(p)
    \/ get_order_list(p)
    \/ get_stock_ask_price(p)
    \/ get_daily_price(p)
    \/ TokenFailed(p)
    \/ TokenGranted(p)
    \/ HashkeyFailed(p)
    \/ HashkeyReturned(p)
    \/ ApiResponse(p)

\* The host runs one invocation after another, in slot p1, of any of the six
\* tools; the token file can be written.
Next ==
    \/ Step("p1")
    \/ Tick
    \/ SetEnv

Spec == Init /\ [][Next]_vars

(***************************************************************************)
(* The token manager on any file system: current price invocations, one    *)
(* after another, with a token file whose save may fail at the open (a     *)
(* missing directory, no permission, a directory in its place) or at the   *)
(* write (a full disk, a file size limit).                                 *)
(***************************************************************************)
NextStore ==
    \/ get_stock_price("p1")
    \/ TokenFailed("p1")
    \/ TokenGranted("p1")
    \/ TokenGrantedUnsaved("p1")
    \/ TokenGrantedTruncated("p1")
    \/ ApiResponse("p1")
    \/ Tick
    \/ SetEnv

SpecStore == Init /\ [][NextStore]_vars

(***************************************************************************)
(* Concurrent invocations: the event loop runs the coroutines of both      *)
(* slots, switching between them at the awaited HTTP calls.  The           *)
(* configuration is not changed, and the token file found at start-up is   *)
(* absent or holds the record of an earlier run.                           *)
(***************************************************************************)
InitConcurrent ==
    /\ now = 0
    /\ env \in {Unset, "VIRTUAL"}
    /\ file \in {FileAbsent} \cup
                {FileObject(token_record(t, e)) : t \in OldTokens, e \in 0..MaxInitExpiry}
    /\ issued = 0
    /\ pc = PerProc("idle")
    /\ call = PerProc(NoCall)
    /\ tok = PerProc(None)
    /\ tokExp = PerProc(NoneTime)
    /\ grant = PerProc(None)
    /\ hashkey = PerProc("")
    /\ reqs = PerProc(<<>>)
    /\ resp = PerProc(NoResponse)
    /\ res = PerProc(NoResult)
    /\ loaded = PerProc(FALSE)
    /\ resolved = {}
    /\ handler = ""
    /\ data = JNull
    /\ outcome = NoOutcome

\* One step of a quote invocation in slot p.
QuoteStep(p) ==
    \/ get_stock_price(p)
    \/ TokenFailed(p)
    \/ TokenGranted(p)
    \/ TokenGrantedUnsaved(p)
    \/ TokenGrantedTruncated(p)
    \/ ApiResponse(p)

NextConcurrent == \E p \in Procs : QuoteStep(p)

SpecConcurrent == InitConcurrent /\ [][NextConcurrent]_vars

(***************************************************************************)
(* The mode selector on its own: KIS_ACCOUNT_TYPE takes any of             *)
(* ModeEnvValues, get_domain and get_tr_id are called with any logical     *)
(* name, and resolved collects the resolutions that returned a value.      *)
(***************************************************************************)
ModeEnvValues == {Unset, "REAL", "real", "VIRTUAL", "paper"}

ModeKeys == (DOMAIN REAL_TR) \cup (DOMAIN VIRTUAL_TR) \cup {"order_cancel"}

Resolution(e, key) ==
    [account_type |-> e, name |-> key, base_url |-> get_domain(e),
     code |-> get_tr_id(e, key)]

InitMode ==
    /\ now = 0
    /\ env \in ModeEnvValues
    /\ file = FileAbsent
    /\ issued = 0
    /\ pc = PerProc("idle")
    /\ call = PerProc(NoCall)
    /\ tok = PerProc(None)
    /\ tokExp = PerProc(NoneTime)
    /\ grant = PerProc(None)
    /\ hashkey = PerProc("")
    /\ reqs = PerProc(<<>>)
    /\ resp = PerProc(NoResponse)
    /\ res = PerProc(NoResult)
    /\ loaded = PerProc(FALSE)
    /\ resolved = {}
    /\ handler = ""
    /\ data = JNull
    /\ outcome = NoOutcome

\* get_domain() and get_tr_id(key) are called and return.
Resolve(key) ==
    /\ Cardinality(resolved) < MaxResolved
    /\ resolved' = resolved \cup {Resolution(env, key)}
    /\ UNCHANGED <<now, env, file, issued, pc, call, tok, tokExp, grant, hashkey,
                   reqs, resp, res, loaded, handler, data, outcome>>

\* The process is started with another KIS_ACCOUNT_TYPE.
SetModeEnv ==
    /\ \E e \in ModeEnvValues \ {env} : env' = e
    /\ UNCHANGED <<now, file, issued, pc, call, tok, tokExp, grant, hashkey,
                   reqs, resp, res, resolved, loaded, handler, data, outcome>>

NextMode ==
    \/ \E key \in ModeKeys : Resolve(key)
    \/ SetModeEnv

SpecMode == InitMode /\ [][NextMode]_vars

(***************************************************************************)
(* Response handling on its own: a tool holds the JSON document of a       *)
(* response whose status it has accepted and runs to its end.              *)
(***************************************************************************)
\* The documents considered.  Objects carry some of the keys a tool looks
\* for and a key it does not know; values are a figure or the empty string.
Leaves == {JStr("70000"), JStr("")}

ObjectsOver(keys, leaves) ==
    {JObj(o) : o \in UNION {[S -> leaves] : S \in SUBSET keys}}

ListsOf(objects) ==
    {JList(l) : l \in UNION {[1..n -> objects] : n \in 0..MaxItems}}

\* The dicts that hold, for some of the keys of `fields`, one of the values
\* fields[key].
RECURSIVE Dicts(_, _)
Dicts(fields, keys) ==
    IF keys = {} THEN {NoObj}
    ELSE LET key == CHOOSE k \in keys : TRUE
             rest == Dicts(fields, keys \ {key})
         IN rest \cup
            {[k \in (DOMAIN f) \cup {key} |-> IF k = key THEN v ELSE f[k]] :
                 f \in rest, v \in fields[key]}

Documents(fields) == {JObj(o) : o \in Dicts(fields, DOMAIN fields)}

Handlers ==
    {"get_stock_price", "get_account_balance", "place_order", "get_order_list",
     "get_stock_ask_price", "get_daily_price"}

DocumentsOf(tool) ==
    CASE tool = "get_stock_price" ->
           Documents([k \in {"output", "rt_cd"} |->
               IF k = "rt_cd" THEN {JStr("0")}
               ELSE {JNull, JStr("")} \cup
                    ObjectsOver({"stck_prpr", "per", "stck_mxpr"}, Leaves)])
      [] tool = "get_account_balance" ->
           Documents([k \in {"output1", "output2"} |->
               IF k = "output1"
               THEN {JNull} \cup ListsOf(ObjectsOver({"pdno", "item_cd"}, {JStr("70000")}))
               ELSE {JNull} \cup
                    ListsOf(ObjectsOver({"tot_evlu_amt", "item_cd"}, {JStr("70000")}))])
      [] tool = "place_order" ->
           Documents([k \in {"output", "rt_cd"} |->
               IF k = "rt_cd" THEN {JStr("0"), JStr("")}
               ELSE ObjectsOver({"ODNO"}, {JStr("70000")})])
      [] tool = "get_order_list" ->
           Documents([k \in {"output1", "output2", "rt_cd", "msg_cd", "msg1"} |->
               CASE k = "output1" ->
                      {JNull} \cup ListsOf(ObjectsOver({"odno", "item_cd"}, {JStr("70000")}))
                 [] k = "output2" -> ObjectsOver({"tot_ord_qty"}, {JStr("70000")})
                 [] k = "rt_cd" -> {JStr("0"), JStr("")}
                 [] OTHER -> {JStr("ok")}])
      [] tool = "get_stock_ask_price" ->
           Documents([k \in {"output1", "output2"} |->
               IF k = "output1"
               THEN {JNull} \cup ObjectsOver({"askp1", "item_cd"}, Leaves)
               ELSE {JNull} \cup ObjectsOver({"stck_prpr", "item_cd"}, Leaves)])
      [] tool = "get_daily_price" ->
           Documents([k \in {"output", "rt_cd"} |->
               IF k = "rt_cd" THEN {JStr("0")}
               ELSE {JNull} \cup
                    ListsOf(ObjectsOver({"stck_clpr", "item_cd"}, {JStr("70000")}))])

InitProjection ==
    /\ now = 0
    /\ env = Unset
    /\ file = FileAbsent
    /\ issued = 0
    /\ pc = PerProc("idle")
    /\ call = PerProc(NoCall)
    /\ tok = PerProc(None)
    /\ tokExp = PerProc(NoneTime)
    /\ grant = PerProc(None)
    /\ hashkey = PerProc("")
    /\ reqs = PerProc(<<>>)
    /\ resp = PerProc(NoResponse)
    /\ res = PerProc(NoResult)
    /\ loaded = PerProc(FALSE)
    /\ resolved = {}
    /\ handler \in Handlers
    /\ data \in DocumentsOf(handler)
    /\ outcome = NoOutcome

\* The tool `tool`, holding the document, runs to its end.
Handle(tool, made) ==
    /\ handler = tool
    /\ outcome = NoOutcome
    /\ outcome' = made
    /\ UNCHANGED <<now, env, file, issued, pc, call, tok, tokExp, grant, hashkey,
                   reqs, resp, res, loaded, resolved, handler, data>>

HandleStockPrice == Handle("get_stock_price", stock_price_result(data))
HandleAccountBalance == Handle("get_account_balance", account_balance_result(data))
HandleOrder == Handle("place_order", order_result(data))
HandleOrderList == Handle("get_order_list", order_list_result(data))
HandleAskPrice == Handle("get_stock_ask_price", ask_price_result(data))
HandleDailyPrice == Handle("get_daily_price", daily_price_result(data))

NextProjection ==
    \/ HandleStockPrice
    \/ HandleAccountBalance
    \/ HandleOrder
    \/ HandleOrderList
    \/ HandleAskPrice
    \/ HandleDailyPrice

SpecProjection == InitProjection /\ [][NextProjection]_vars

(***************************************************************************)
(* Vocabulary of the properties.                                           *)
(***************************************************************************)
\* The step in which invocation p runs lines 84-86 of get_access_token.
RunsGetAccessToken(p) ==
    /\ pc[p] \in {"idle", "done"}
    /\ pc'[p] \in {"token_wait", "hash_wait", "api_wait"}

IsIso(s) == s \in DOMAIN IsoTimes

\* The file holds a token record: both keys, an ISO expires_at, a token value.
PersistedToken(f) ==
    /\ f.kind = "object"
    /\ {"token", "expires_at"} \subseteq DOMAIN f.obj
    /\ IsIso(f.obj["expires_at"])
    /\ f.obj["token"] # ""

ExpiryOf(f) == IsoTimes[f.obj["expires_at"]]

\* No file, no JSON, a record lacking a key, or a non-ISO expires_at.
Malformed(f) ==
    \/ f.kind \in {"absent", "text"}
    \/ /\ f.kind = "object"
       /\ \/ "token" \notin DOMAIN f.obj
          \/ "expires_at" \notin DOMAIN f.obj
          \/ ~IsIso(f.obj["expires_at"])

TokenRequests(q) == {i \in DOMAIN q : q[i].kind = "token"}
HashkeyRequests(q) == {i \in DOMAIN q : q[i].kind = "hashkey"}
BearerRequests(q) == {i \in DOMAIN q : q[i].kind \in {"hashkey", "api"}}
OrderPosts(p) ==
    {i \in DOMAIN reqs[p] : reqs[p][i].kind = "api" /\ call[p].tool = "place_order"}

\* A credential grant that failed: network error, non-2xx status, or a
\* response without access_token.
FailedGrant(r) ==
    \/ r.net = "error"
    \/ r.status \notin 200..299
    \/ r.json = NotJson
    \/ "access_token" \notin DOMAIN r.json.obj

\* A hashkey request that failed: network error, non-2xx status, or a
\* response without HASH.
FailedSigning(r) ==
    \/ r.net = "error"
    \/ r.status \notin 200..299
    \/ r.json = NotJson
    \/ "HASH" \notin DOMAIN r.json.obj

\* The hashkey call of invocation p is answered in this step, with resp'[p].
HashkeyAnswered(p) == pc[p] = "hash_wait" /\ pc'[p] # "hash_wait"

\* The token call of invocation p is answered in this step, with resp'[p].
GrantAnswered(p) == pc[p] = "token_wait" /\ pc'[p] # "token_wait"

\* The place of a request in the order of place_order's steps.
StepRank(kind) ==
    CASE kind = "token" -> 1
      [] kind = "hashkey" -> 2
      [] kind = "api" -> 3

\* The deployment a configuration value selects.
LiveEnv(e) == e \in {Unset, "REAL", "real"}
TableOf(e) == IF LiveEnv(e) THEN REAL_TR ELSE VIRTUAL_TR
\* The tools that call raise_for_status on their trading/quote response, and
\* the two that test status_code != 200.
StatusRaisingTools ==
    {"get_stock_price", "get_account_balance", "place_order", "get_order_list"}
StatusTestingTools == {"get_stock_ask_price", "get_daily_price"}

\* The trading/quote call of invocation p is answered in this step.
ApiAnswered(p) == pc[p] = "api_wait" /\ pc'[p] = "done"

\* The field of the response document that holds a tool's data.
ExpectedKey(tool) ==
    IF tool \in {"get_account_balance", "get_order_list", "get_stock_ask_price"}
    THEN "output1" ELSE "output"

\* The place of a key that a document does not hold.
Absent == [kind |-> "absent", obj |-> NoObj, str |-> "", items |-> <<>>]

Lookup(u, key) ==
    IF u.kind = "obj" /\ key \in DOMAIN u.obj THEN u.obj[key] ELSE Absent

\* The result value r only selects from the upstream value u: a string of r
\* is the string of u at the same place, an object or list of r stands
\* where u has an object or list (or holds nothing but nulls), and what is
\* left is null.
RECURSIVE Selected(_, _)
Selected(r, u) ==
    CASE r.kind = "null" -> TRUE
      [] r.kind = "str" -> r = u
      [] r.kind = "obj" ->
           IF DOMAIN r.obj = {} THEN u.kind = "obj"
           ELSE \A k \in DOMAIN r.obj : Selected(r.obj[k], Lookup(u, k))
      [] r.kind = "list" ->
           IF r.items = <<>> THEN u.kind = "list"
           ELSE /\ u.kind = "list"
                /\ Len(u.items) = Len(r.items)
                /\ \A i \in DOMAIN r.items : Selected(r.items[i], u.items[i])

\* The part of the document a tool's result is selected from.
Upstream(tool, d) ==
    IF tool \in {"get_stock_price", "get_daily_price"} THEN Lookup(d, "output") ELSE d

\* The tool returned a projection (not an exception, not a message).
Projected ==
    /\ outcome.kind = "returned"
    /\ ~(outcome.value.kind = "obj" /\ "message" \in DOMAIN outcome.value.obj)

\* The tokens the token endpoints have issued: in this run, or to an
\* earlier run that left them in the file.
IssuedTokens(n) ==
    OldTokens \cup {TokenName(d, i) : d \in {DOMAIN_REAL, VIRTUAL_DOMAIN}, i \in 1..n}

\* The tokens the token endpoint of the deployment at `domain` issues: to
\* this run, or to the earlier run that left its token in the file.
IssuedBy(domain) == {TokenName(domain, n) : n \in 0..MaxIssued}

\* The invocations that await the answer to a token request.
Refreshing == {p \in Procs : pc[p] = "token_wait"}

\* The transaction table of the deployment at `domain`.
TableAt(domain) == IF domain = DOMAIN_REAL THEN REAL_TR ELSE VIRTUAL_TR

\* The transaction codes of the deployment at `domain`.
CodesAt(domain) ==
    LET table == IF domain = DOMAIN_REAL THEN REAL_TR ELSE VIRTUAL_TR
    IN {table[k] : k \in DOMAIN table}
GatewayKeys == {"price", "balance", "buy", "sell", "order_list", "stock_ask", "stock_info"}
MutatingKeys == {"buy", "sell"}

(***************************************************************************)
(* Properties.                                                             *)
(***************************************************************************)
\* C1: every request that carries the bearer token (hashkey request,
\* trading/quote request) is dispatched strictly before the expires_at held
\* for that token.
C1_NeverUsesExpiredToken ==
    \A p \in Procs : \A i \in BearerRequests(reqs[p]) : ~reqs[p][i].expired

\* C2: when the file holds a token record T whose expires_at is not after
\* the current time (the clock read of line 85), get_access_token posts a
\* request to the token endpoint and returns nothing before the answer; the
\* value it returns after a token request is the access_token of the
\* response, and differs from the value of the record in the file.
C2_ExpiredTokenIsRefreshed ==
    [][\A p \in Procs :
        /\ (RunsGetAccessToken(p) /\ PersistedToken(file) /\ ~(now' < ExpiryOf(file)))
              => /\ pc'[p] = "token_wait"
                 /\ tok'[p] = None
                 /\ Len(reqs'[p]) = 1
                 /\ reqs'[p][1].kind = "token"
                 /\ reqs'[p][1].path = TOKEN_PATH
        /\ (pc[p] = "token_wait" /\ tok'[p] # None)
              => /\ tok'[p] = grant'[p]
                 /\ grant'[p] = TokenName(reqs[p][1].domain, issued')
                 /\ PersistedToken(file) => tok'[p] # file.obj["token"]
      ]_vars

\* C2 witness: a token request is in flight while the file still holds a
\* token record that has expired.
C2_Witness ==
    \E p \in Procs :
        /\ pc[p] = "token_wait"
        /\ PersistedToken(file)
        /\ ~(now < ExpiryOf(file))

\* C3: when the file holds a token record T whose expires_at is strictly
\* after the current time (the clock read of line 85), get_access_token
\* returns T's value, posts no token request and leaves the file as it is;
\* the file is written only by an invocation that awaited the token endpoint.
C3_ValidTokenIsReused ==
    [][/\ \A p \in Procs :
            (RunsGetAccessToken(p) /\ PersistedToken(file) /\ now' < ExpiryOf(file))
               => /\ tok'[p] = file.obj["token"]
                  /\ pc'[p] # "token_wait"
                  /\ TokenRequests(reqs'[p]) = {}
                  /\ issued' = issued
                  /\ file' = file
       /\ file' # file => \E q \in Procs : pc[q] = "token_wait"
      ]_vars

\* C3 witness: an invocation goes on with the token of the file, having
\* posted no token request.
C3_Witness ==
    \E p \in Procs :
        /\ pc[p] \in {"hash_wait", "api_wait"}
        /\ PersistedToken(file)
        /\ now < ExpiryOf(file)
        /\ tok[p] = file.obj["token"]
        /\ grant[p] = None
        /\ TokenRequests(reqs[p]) = {}

\* C4: every step that changes the token file is a refresh and leaves a
\* JSON object with exactly the keys token and expires_at, holding the token
\* granted in that refresh and its grant time plus 23 hours, so that after
\* any sequence of refreshes the file is the record saved last and nothing
\* of an earlier record is left.
C4_SlotIsLastSavedRecord ==
    [][file' # file =>
        /\ issued' = issued + 1
        /\ file'.kind = "object"
        /\ DOMAIN file'.obj = {"token", "expires_at"}
        /\ file'.obj["token"] \in {TokenName(d, issued') : d \in {DOMAIN_REAL, VIRTUAL_DOMAIN}}
        /\ file'.obj["expires_at"] = isoformat(now + 23)
      ]_vars

\* C5: when the answer to the token request is a failure, the invocation
\* ends there with an exception: it has sent one token request and nothing
\* else, sends nothing more, and the file is left as it is.
C5_FailedGrantSurfaces ==
    [][\A p \in Procs :
        (pc[p] = "token_wait" /\ resp'[p] # resp[p] /\ FailedGrant(resp'[p]))
           => /\ pc'[p] = "done"
              /\ res'[p].kind = "raised"
              /\ reqs'[p] = <<>>
              /\ Len(reqs[p]) = 1
              /\ reqs[p][1].kind = "token"
              /\ file' = file
              /\ issued' = issued
      ]_vars

\* C5 witness: an invocation ended on a failed credential grant.
C5_Witness ==
    \E p \in Procs :
        /\ pc[p] = "done"
        /\ res[p] = Raised("token")
        /\ FailedGrant(resp[p])
        /\ resp[p].net = "ok"
        /\ resp[p].status = 200

\* C6: with a missing file, a file that is not JSON, a record lacking token
\* or expires_at, or a non-ISO expires_at, load_token returns (None, None)
\* and get_access_token goes to the token endpoint, as it does with no file.
C6_MalformedIsNoCache ==
    [][\A p \in Procs :
        (RunsGetAccessToken(p) /\ Malformed(file))
           => /\ load_token(file, now) = load_token(FileAbsent, now)
              /\ load_token(file, now) = NoToken
              /\ tok'[p] = None
              /\ pc'[p] = "token_wait"
              /\ Len(reqs'[p]) = 1
              /\ reqs'[p][1].kind = "token"
              /\ file' = file
      ]_vars

\* C6 witness: a token request is in flight while the file holds a record
\* without a usable expires_at.
C6_Witness ==
    \E p \in Procs :
        /\ pc[p] = "token_wait"
        /\ file.kind = "object"
        /\ Malformed(file)
        /\ "token" \in DOMAIN file.obj

\* C7: get_tr_id returns a value only for a logical name that the table of
\* the active mode holds; for any other name it raises, so that no
\* resolution of such a name is ever made.
C7_UnknownNameFailsLoudly ==
    \A r \in resolved : r.name \in DOMAIN TableOf(r.account_type)

\* C8: LIVE and PAPER resolve to different base URLs; every logical name the
\* gateway uses resolves to the code of the active mode's table; the codes of
\* the two modes differ for buy and sell, and are equal only for lookups.
C8_ModesResolveApart ==
    \A r1 \in resolved, r2 \in resolved :
        /\ r1.base_url = (IF LiveEnv(r1.account_type) THEN DOMAIN_REAL ELSE VIRTUAL_DOMAIN)
        /\ r1.name \in GatewayKeys => r1.code = TableOf(r1.account_type)[r1.name]
        /\ LiveEnv(r1.account_type) # LiveEnv(r2.account_type) =>
              /\ r1.base_url # r2.base_url
              /\ (r1.name = r2.name /\ r1.name \in MutatingKeys) => r1.code # r2.code
              /\ (r1.name = r2.name /\ r1.name \in GatewayKeys /\ r1.code = r2.code)
                    => r1.name \notin MutatingKeys

\* C8 witness: buy has been resolved in both modes.
C8_Witness ==
    \E r1 \in resolved, r2 \in resolved :
        /\ LiveEnv(r1.account_type)
        /\ ~LiveEnv(r2.account_type)
        /\ r1.name = "buy"
        /\ r2.name = "buy"

\* C9: all requests of one invocation (token, hashkey, trading/quote) go to
\* the base URL of one mode, and the transaction code of its trading/quote
\* request is a code of that mode's table.
C9_ModeFixed ==
    \A p \in Procs : \A i \in DOMAIN reqs[p], j \in DOMAIN reqs[p] :
        /\ reqs[p][i].domain = reqs[p][j].domain
        /\ reqs[p][j].kind = "api" => reqs[p][j].tr_id \in CodesAt(reqs[p][i].domain)

\* C10: an order POST follows the one hashkey request of its invocation,
\* has the body that request signed, and carries the hash returned for it.
C10_OrderCarriesItsHashkey ==
    \A p \in Procs : \A i \in OrderPosts(p) :
        /\ i > 1
        /\ reqs[p][i - 1].kind = "hashkey"
        /\ reqs[p][i - 1].body = reqs[p][i].body
        /\ Cardinality(HashkeyRequests(reqs[p])) = 1
        /\ reqs[p][i].hashkey = hashkey[p]
        /\ reqs[p][i].hashkey = HashOf(reqs[p][i].body)

\* C10 witness: an order POST is in flight.
C10_Witness ==
    \E p \in Procs : pc[p] = "api_wait" /\ OrderPosts(p) # {}

\* C11: in a place_order call with side buy or sell, the body that is signed
\* and the body that is posted have ORD_DVSN "01" exactly when price = 0 and
\* "00" otherwise; the order request follows exactly one hashkey request and
\* carries the code of the side in the table of the mode it is sent to.
C11_OrderBodyAndCode ==
    \A p \in Procs : call[p].tool = "place_order" =>
        /\ Cardinality(HashkeyRequests(reqs[p])) <= 1
        /\ \A i \in BearerRequests(reqs[p]) :
              /\ lower(call[p].order_type) \in {"buy", "sell"}
              /\ reqs[p][i].body.ORD_DVSN = "01" <=> call[p].price = 0
              /\ reqs[p][i].body.ORD_DVSN = "00" <=> call[p].price # 0
              /\ reqs[p][i].kind = "api" =>
                    /\ Cardinality(HashkeyRequests(reqs[p])) = 1
                    /\ reqs[p][i].tr_id =
                          TableAt(reqs[p][i].domain)[lower(call[p].order_type)]

\* C11 witness: a market sell order has been posted to the PAPER deployment.
C11_Witness ==
    \E p \in Procs :
        /\ pc[p] = "api_wait"
        /\ call[p].tool = "place_order"
        /\ call[p].price = 0
        /\ call[p].order_type = "SELL"
        /\ reqs[p][Len(reqs[p])].kind = "api"
        /\ reqs[p][Len(reqs[p])].domain = VIRTUAL_DOMAIN
        /\ reqs[p][Len(reqs[p])].tr_id = "VTTC0801U"
        /\ reqs[p][Len(reqs[p])].body.ORD_DVSN = "01"

\* C12: a place_order call whose order_type, lower-cased, is neither buy nor
\* sell ends at once with a result under the key `error`; it has not opened
\* the token file, sends no token, hashkey or order request, receives no
\* token and writes nothing to the token file.
C12_InvalidSideFailsFast ==
    [][\A p \in Procs :
        (/\ call'[p].tool = "place_order"
         /\ lower(call'[p].order_type) \notin {"buy", "sell"})
           => /\ pc'[p] = "done"
              /\ res'[p] = Returned("error")
              /\ reqs'[p] = <<>>
              /\ ~loaded'[p]
              /\ tok'[p] = None
              /\ resp'[p] = NoResponse
              /\ file' = file
              /\ issued' = issued
      ]_vars

\* C12 witness: a call with order_type "hold" has ended with the error
\* result while the token file holds no usable token.
C12_Witness ==
    \E p \in Procs :
        /\ pc[p] = "done"
        /\ call[p].tool = "place_order"
        /\ call[p].order_type = "hold"
        /\ res[p] = Returned("error")
        /\ ~loaded[p]
        /\ file = FileAbsent

\* C13: when the trading/quote request of current price, account balance,
\* place order or order history is answered with a status that is not 2xx,
\* the tool returns a result under the key `error` or `message`; it raises no
\* exception.
C13_HttpFailureIsReturned ==
    [][\A p \in Procs :
        (/\ ApiAnswered(p)
         /\ call[p].tool \in StatusRaisingTools
         /\ resp'[p].net = "ok"
         /\ resp'[p].status \notin 200..299)
           => /\ res'[p].kind = "returned"
              /\ res'[p].value \in {"error", "message"}
      ]_vars

\* C14 (as stated): ask price and daily price raise an exception for every
\* status that is not 2xx and return a projected result for every 2xx status.
C14_QuoteToolsRaiseOnNon2xx ==
    [][\A p \in Procs :
        (/\ ApiAnswered(p)
         /\ call[p].tool \in StatusTestingTools
         /\ resp'[p].net = "ok")
           => /\ resp'[p].status \notin 200..299 => res'[p].kind = "raised"
              /\ resp'[p].status \in 200..299 => res'[p].kind = "returned"
      ]_vars

\* C14 (amended): ask price and daily price raise an exception for every
\* status other than 200, the other 2xx statuses included.  For status 200
\* they return a projected result, never a message, when the body is a JSON
\* object in which every field they read (output1 and output2; output) is
\* absent or of the type they read it as (an object; a list of objects);
\* they raise when the body is not JSON or such a field is null.
C14_QuoteToolsRaiseUnless200 ==
    [][\A p \in Procs :
        (/\ ApiAnswered(p)
         /\ call[p].tool \in StatusTestingTools
         /\ resp'[p].net = "ok")
           => LET d == resp'[p].json
                  fields == IF call[p].tool = "get_stock_ask_price"
                            THEN {"output1", "output2"} ELSE {"output"}
                  kinds == IF call[p].tool = "get_stock_ask_price"
                           THEN {"obj"} ELSE {"list"}
              IN /\ resp'[p].status # 200 => res'[p] = Raised("Exception")
                 /\ (resp'[p].status = 200 /\ d = NotJson)
                       => res'[p] = Raised("JSONDecodeError")
                 /\ (resp'[p].status = 200 /\ d # NotJson)
                       => IF \A k \in fields \cap DOMAIN d.obj :
                                /\ d.obj[k].kind \in kinds
                                /\ \A i \in DOMAIN d.obj[k].items :
                                      d.obj[k].items[i].kind = "obj"
                          THEN res'[p] = Returned("data")
                          ELSE res'[p].kind = "raised"
      ]_vars

\* C14 witness: the daily price call was answered 201 and raised.
C14_Witness ==
    \E p \in Procs :
        /\ pc[p] = "done"
        /\ call[p].tool = "get_daily_price"
        /\ resp[p].net = "ok"
        /\ resp[p].status = 201
        /\ res[p] = Raised("Exception")

\* C15: whenever the document of an accepted response lacks the tool's data
\* (output / output1 absent or empty), the tool returns a dict with the key
\* `message` and raises nothing; for order history the dict is exactly
\* {"message": "No order history found for the given period."}.
C15_EmptyIsMessage ==
    (/\ outcome # NoOutcome
     /\ \/ ExpectedKey(handler) \notin DOMAIN data.obj
        \/ falsy(data.obj[ExpectedKey(handler)]))
       => /\ outcome.kind = "returned"
          /\ outcome.value.kind = "obj"
          /\ "message" \in DOMAIN outcome.value.obj
          /\ handler = "get_order_list" =>
                outcome.value = Message("No order history found for the given period.")

\* C16: for every non-empty `output` object of the price endpoint,
\* get_stock_price returns a dict whose keys are exactly the 18 keys of its
\* list; each holds the value `output` has for it, or null when `output`
\* lacks the key; no other key of `output` appears.
C16_PriceProjectionKeys ==
    (/\ handler = "get_stock_price"
     /\ outcome # NoOutcome
     /\ "output" \in DOMAIN data.obj
     /\ data.obj["output"].kind = "obj"
     /\ DOMAIN data.obj["output"].obj # {})
       => /\ outcome.kind = "returned"
          /\ outcome.value.kind = "obj"
          /\ DOMAIN outcome.value.obj = price_keys
          /\ Cardinality(DOMAIN outcome.value.obj) = 18
          /\ \A k \in price_keys :
                outcome.value.obj[k] =
                    IF k \in DOMAIN data.obj["output"].obj
                    THEN data.obj["output"].obj[k]
                    ELSE JNull

\* C16 witness: the price endpoint sent stck_prpr and a key outside the list
\* but no per; the result holds the price, null for per, and 18 keys.
C16_Witness ==
    /\ handler = "get_stock_price"
    /\ outcome.kind = "returned"
    /\ "output" \in DOMAIN data.obj
    /\ data.obj["output"].kind = "obj"
    /\ DOMAIN data.obj["output"].obj = {"stck_prpr", "stck_mxpr"}
    /\ outcome.value.obj["stck_prpr"] = JStr("70000")
    /\ outcome.value.obj["per"] = JNull
    /\ "stck_mxpr" \notin DOMAIN outcome.value.obj

\* C17: the projection a tool returns only selects fields: every value in it
\* is the value the upstream document has at that place, or null; no empty
\* string, empty object or empty list stands for a key the upstream
\* document lacks.
C17_ProjectionOnlySelects ==
    Projected => Selected(outcome.value, Upstream(handler, data))

\* C18: under every interleaving of concurrent invocations the token file
\* is absent or one complete {token, expires_at} record, never a partial
\* record; every write is made by one refresh and stores the token that
\* refresh was granted together with the expires_at that refresh computed;
\* every invocation goes on with a token a token endpoint issued.
C18_SlotNeverCorrupted ==
    [][/\ \/ file'.kind = "absent"
          \/ /\ file'.kind = "object"
             /\ DOMAIN file'.obj = {"token", "expires_at"}
             /\ IsIso(file'.obj["expires_at"])
             /\ file'.obj["token"] \in IssuedTokens(issued')
       /\ file' # file =>
             \E p \in Refreshing :
                 /\ issued' = issued + 1
                 /\ grant'[p] = TokenName(reqs[p][1].domain, issued')
                 /\ tokExp'[p] = now + TOKEN_TTL_HOURS
                 /\ file' = FileObject(token_record(grant'[p], tokExp'[p]))
       /\ \A p \in Procs : tok'[p] # None => tok'[p] \in IssuedTokens(issued')
      ]_vars

\* C19: at most one invocation at a time awaits the answer to a token
\* request: concurrent invocations that find no usable token do not each
\* call the token endpoint.
C19_SingleRefreshInFlight ==
    Cardinality(Refreshing) <= 1

\* C20: place_order sends no hashkey request and no order request for an
\* order whose quantity is not positive or whose price is negative.
C20_InvalidOrderIsNotSent ==
    \A p \in Procs :
        (/\ call[p].tool = "place_order"
         /\ (call[p].quantity <= 0 \/ call[p].price < 0))
           => BearerRequests(reqs[p]) = {}


\* C21: in a place_order invocation the requests go out in the order token
\* request (if any), hashkey request, order POST, and the hashkey request
\* and the order POST carry the token get_access_token returned; the order
\* POST is dispatched only on a successful answer to the hashkey request;
\* when the hashkey request fails (network error, non-2xx status, or no
\* HASH in the response) the invocation has posted no order, posts none and
\* ends with an exception.
C21_OrderFollowsSigning ==
    [][\A p \in Procs : call'[p].tool = "place_order" =>
        /\ \A i \in DOMAIN reqs'[p], j \in DOMAIN reqs'[p] :
              i < j => StepRank(reqs'[p][i].kind) < StepRank(reqs'[p][j].kind)
        /\ \A i \in BearerRequests(reqs'[p]) :
              /\ tok'[p] # None
              /\ reqs'[p][i].token = tok'[p]
              /\ reqs'[p][i].kind = "api" => HashkeyRequests(reqs'[p]) = {i - 1}
        /\ (OrderPosts(p) = {} /\ \E i \in DOMAIN reqs'[p] : reqs'[p][i].kind = "api")
              => /\ HashkeyAnswered(p)
                 /\ ~FailedSigning(resp'[p])
        /\ (HashkeyAnswered(p) /\ FailedSigning(resp'[p]))
              => /\ OrderPosts(p) = {}
                 /\ reqs'[p] = <<>>
                 /\ pc'[p] = "done"
                 /\ res'[p].kind = "raised"
      ]_vars

\* C21 witness: a place_order invocation ended with an exception on a
\* hashkey response of status 200 that holds no HASH.
C21_Witness ==
    \E p \in Procs :
        /\ pc[p] = "done"
        /\ call[p].tool = "place_order"
        /\ res[p] = Raised("hashkey")
        /\ resp[p].net = "ok"
        /\ resp[p].status = 200
        /\ resp[p].json = JObj(NoObj)

\* C22: when the token request is answered with a grant, get_access_token
\* returns the access_token of the response, a value not issued before; the
\* file then holds that value and, as expires_at, the time of the grant plus
\* 23 hours, and reading the file back at any time before that expires_at
\* yields the value.  After a grant, a get_access_token call made before the
\* expires_at of the file returns the token of the file, which is the token
\* granted last, and sends no token request.
C22_GrantIsPersisted ==
    [][\A p \in Procs :
        /\ (GrantAnswered(p) /\ ~FailedGrant(resp'[p]))
              => /\ tok'[p] = TokenName(reqs[p][1].domain, issued')
                 /\ tok'[p] = grant'[p]
                 /\ tok'[p] \notin IssuedTokens(issued)
                 /\ file'.kind = "object"
                 /\ DOMAIN file'.obj = {"token", "expires_at"}
                 /\ file'.obj["token"] = tok'[p]
                 /\ file'.obj["expires_at"] = isoformat(now + 23)
                 /\ fromisoformat(file'.obj["expires_at"]).time = now + 23
                 /\ tokExp'[p] = now + 23
                 /\ \A t \in now..(now + 23) :
                       cached_token(file', t, t).token =
                           (IF t < now + 23 THEN tok'[p] ELSE None)
        /\ (RunsGetAccessToken(p) /\ issued > 0 /\ PersistedToken(file)
                /\ now' < ExpiryOf(file))
              => /\ tok'[p] = file.obj["token"]
                 /\ tok'[p] \in {TokenName(d, issued) : d \in {DOMAIN_REAL, VIRTUAL_DOMAIN}}
                 /\ tokExp'[p] = ExpiryOf(file)
                 /\ TokenRequests(reqs'[p]) = {}
                 /\ issued' = issued
                 /\ file' = file
      ]_vars

\* C23: every hashkey or trading/quote request carries a bearer token that
\* the token endpoint of the deployment it is sent to has issued.
C23_TokenStaysInItsDeployment ==
    \A p \in Procs : \A i \in BearerRequests(reqs[p]) :
        reqs[p][i].token \in IssuedBy(reqs[p][i].domain)

====
